---- MODULE Spec2Model ----
(***************************************************************************)
(* Booking marketplace backend (zentro-backend): the booking engine, the   *)
(* consultant directory and the rating aggregator as a state machine over  *)
(* the document store.  Every request handler is one action; a handler's   *)
(* save includes the schema's pre-save hooks.                              *)
(***************************************************************************)
EXTENDS Integers, Sequences, FiniteSets, TLC

VARIABLES
    bookings,     \* the Booking collection: a sequence, _id = index
    consultants,  \* the Consultant collection: _id -> document
    categories,   \* the Category collection: _id -> document
    response,     \* the answer to the last request
    requests,     \* the requests in flight: past their reads, before their save
    users         \* the User collection: email -> document

vars == <<bookings, consultants, categories, response, requests, users>>

-----------------------------------------------------------------------------
(* Bounds of the model *)

MaxBookings == 2       \* stored bookings, where creation and rating are explored
MaxLifeBookings == 1   \* stored bookings, where the whole life cycle is explored

-----------------------------------------------------------------------------
(* Accounts: the caller identity {_id, role} handed over by authenticateToken *)

Users == 1..5
Role(u) == IF u \in {1, 2} THEN "client" ELSE IF u \in {3, 4} THEN "consultant" ELSE "admin"

\* _id values of consultant profiles (one for each consultant account) and of categories
ConsultantIds == {1, 2}
CategoryIds == {1, 2}

\* Time stamps are only stored and tested for presence: new Date() returns the one
\* instant of Instants, and a date is in the future when it is later than that
Instants == {1}
Dates == {1, 2}

-----------------------------------------------------------------------------
(* Strings that the code inspects are sequences of character codes *)

Digit(d) == 48 + d
Colon == 58
IsDigit(c) == c \in 48..57

\* "Inval": the first five characters of "Invalid Date"
InvalidDatePrefix == <<73, 110, 118, 97, 108>>

\* hh:mm written with a two-digit hour, or h:mm when pad is FALSE and hh < 10
TimeString(hh, mm, pad) ==
    IF hh < 10 /\ ~pad
    THEN <<Digit(hh), Colon, Digit(mm \div 10), Digit(mm % 10)>>
    ELSE <<Digit(hh \div 10), Digit(hh % 10), Colon, Digit(mm \div 10), Digit(mm % 10)>>

\* /^([01]?[0-9]|2[0-3]):[0-5][0-9]$/
MatchesHHMM(s) ==
    \/ /\ Len(s) = 4
       /\ IsDigit(s[1]) /\ s[2] = Colon /\ s[3] \in 48..53 /\ IsDigit(s[4])
    \/ /\ Len(s) = 5
       /\ \/ s[1] \in {48, 49} /\ IsDigit(s[2])
          \/ s[1] = 50 /\ s[2] \in 48..51
       /\ s[3] = Colon /\ s[4] \in 48..53 /\ IsDigit(s[5])

\* lexicographic order of strings ($lt / $gt on string fields)
RECURSIVE StrLess(_, _)
StrLess(a, b) ==
    IF b = <<>> THEN FALSE
    ELSE IF a = <<>> THEN TRUE
    ELSE IF Head(a) # Head(b) THEN Head(a) < Head(b)
    ELSE StrLess(Tail(a), Tail(b))

NaN == -1

\* new Date(`2000-01-01T${s}:00`).getTime(), in minutes after local midnight:
\* the date-time form needs a two-digit hour, anything else is an Invalid Date
ParseLocalTime(s) ==
    IF /\ Len(s) = 5
       /\ IsDigit(s[1]) /\ IsDigit(s[2]) /\ s[3] = Colon /\ IsDigit(s[4]) /\ IsDigit(s[5])
       /\ (s[1] - 48) * 10 + (s[2] - 48) <= 23
       /\ (s[4] - 48) * 10 + (s[5] - 48) <= 59
    THEN ((s[1] - 48) * 10 + (s[2] - 48)) * 60 + (s[4] - 48) * 10 + (s[5] - 48)
    ELSE NaN

\* date.toTimeString().slice(0, 5)
TimeStringSlice(minutes) ==
    IF minutes = NaN THEN InvalidDatePrefix
    ELSE TimeString((minutes % 1440) \div 60, minutes % 60, TRUE)

\* startTime + duration * 60000 ms, as the pre-save hook computes endTime
CalcEndTime(startTime, duration) ==
    LET start == ParseLocalTime(startTime)
        end == IF start = NaN THEN NaN ELSE start + duration
    IN  TimeStringSlice(end)

-----------------------------------------------------------------------------
(* Documents *)

NoDate == 0          \* an unset Date field
NoScore == 0         \* rating.score absent
NoText == 0          \* an absent or empty string; other texts are known by their length

BookingStatuses == {"pending", "confirmed", "completed", "cancelled", "no-show"}

MinDuration == 30
MaxDuration == 480
MinScore == 1
MaxScore == 5
MaxReasonLen == 200
MaxReviewLen == 1000
MaxNotesLen == 500

\* a rating average is the quotient num / den of two integers
Quotient(n, d) == [num |-> n, den |-> d]
ZeroAverage == Quotient(0, 1)

NoConsultant ==
    [exists |-> FALSE, user |-> 0, categories |-> {}, hourlyRate |-> 0, isActive |-> FALSE,
     totalBookings |-> 0, completedBookings |-> 0,
     rating |-> [average |-> ZeroAverage, count |-> 0]]

NoName == <<>>

NoCategory == [exists |-> FALSE, name |-> NoName, consultantCount |-> 0, bookingCount |-> 0]

NoData == <<>>

\* the answer of a handler: status code and message; a list answer also has the
\* bookings it carries (data) and the caller it goes to (to)
Response(op, code, message) ==
    [op |-> op, code |-> code, message |-> message, data |-> NoData, to |-> 0]

\* no answer (yet)
NoResponse == Response("none", 0, "")

BookingIds == 1..Len(bookings)

\* Consultant.findOne({ user }): the first profile of that user, 0 when there is none
FindConsultantByUser(u) ==
    LET own == {c \in ConsultantIds : consultants[c].exists /\ consultants[c].user = u}
    IN  IF own = {} THEN 0 ELSE CHOOSE c \in own : \A d \in own : c <= d

\* the paths whose value differs from the loaded document (isModified)
ModifiedPaths(old, new) == {f \in DOMAIN new : old[f] # new[f]}

-----------------------------------------------------------------------------
(* Booking schema: pre('save') hooks *)

\* this._original is assigned nowhere in the code base: it is undefined on every document
Original(doc) == [defined |-> FALSE, status |-> "pending", categories |-> {}]

\* pre('save') #1, first half: end time from start time and duration
EndTimeHook(doc, modified) ==
    IF "startTime" \in modified \/ "duration" \in modified
    THEN [doc EXCEPT !.endTime = CalcEndTime(doc.startTime, doc.duration)]
    ELSE doc

\* pre('save') #1, second half: total amount when it is not set (0 is falsy); the
\* quotient is exact for the rates and durations of the requests below
TotalAmountHook(doc, cons) ==
    IF doc.totalAmount = 0 /\ doc.consultant # 0 /\ cons[doc.consultant].exists
    THEN [doc EXCEPT !.totalAmount = (cons[doc.consultant].hourlyRate * doc.duration) \div 60]
    ELSE doc

\* Consultant.findByIdAndUpdate(id, { $inc: { field: 1 } })
IncConsultant(cons, id, field, by) ==
    IF id \in ConsultantIds /\ cons[id].exists
    THEN [cons EXCEPT ![id][field] = @ + by]
    ELSE cons

\* mutant: a new booking is counted in completedBookings
BookingCountsHookWrongField(cons, doc, modified, isNew) ==
    IF isNew THEN IncConsultant(cons, doc.consultant, "completedBookings", 1) ELSE cons

\* pre('save') #2: the consultant's booking counters
BookingCountsHook(cons, doc, modified, isNew) ==
    LET afterCompleted ==
            IF /\ "status" \in modified
               /\ doc.status = "completed"
               /\ Original(doc).defined
               /\ Original(doc).status # "completed"
            THEN IncConsultant(cons, doc.consultant, "completedBookings", 1)
            ELSE cons
    IN  IF isNew
        THEN IncConsultant(afterCompleted, doc.consultant, "totalBookings", 1)
        ELSE afterCompleted

\* both hooks of booking.save(): the document written and the consultants after it
BookingPreSave(cons, doc, modified, isNew) ==
    LET d == TotalAmountHook(EndTimeHook(doc, modified), cons)
    IN  [doc |-> d, consultants |-> BookingCountsHook(cons, d, modified, isNew)]

\* schema validators of a new booking, run by save() before the pre('save') hooks
BookingSchemaValid(doc, now) ==
    /\ doc.date > now
    /\ doc.duration >= MinDuration /\ doc.duration <= MaxDuration
    /\ MatchesHHMM(doc.startTime)
    /\ MatchesHHMM(doc.endTime)
    /\ doc.totalAmount >= 0

\* Booking.checkConflict(consultantId, date, startTime, endTime, excludeBookingId):
\* the _id of the first conflicting booking, 0 (null) when there is none
CheckConflict(consultantId, date, startTime, endTime, excludeBookingId) ==
    LET hits == {i \in BookingIds :
                    /\ bookings[i].consultant = consultantId
                    /\ bookings[i].date = date
                    /\ bookings[i].status \notin {"cancelled", "no-show"}
                    /\ StrLess(bookings[i].startTime, endTime)
                    /\ StrLess(startTime, bookings[i].endTime)
                    /\ (excludeBookingId # 0 => i # excludeBookingId)}
    IN  IF hits = {} THEN 0 ELSE CHOOSE i \in hits : \A j \in hits : i <= j

-----------------------------------------------------------------------------
(* Middleware *)

\* authorizeRoles(...roles): the request goes on only for a caller with one of the roles
AuthorizeRoles(u, roles) == Role(u) \in roles

RequireClient(u) == AuthorizeRoles(u, {"client"})
RequireConsultant(u) == AuthorizeRoles(u, {"consultant"})
RequireAdmin(u) == AuthorizeRoles(u, {"admin"})

\* a handler that answers without writing to the store
Answer(op, code, message) ==
    /\ response' = Response(op, code, message)
    /\ UNCHANGED <<bookings, consultants, categories, requests, users>>

\* the error handler's status for an error thrown by save() is not fixed by the routes
StoreErrorCodes == {400, 500}

-----------------------------------------------------------------------------
(* POST /api/bookings *)

\* express-validator chain of POST /
CreateBookingBodyValid(body) ==
    /\ MatchesHHMM(body.startTime)
    /\ MatchesHHMM(body.endTime)
    /\ body.duration >= MinDuration /\ body.duration <= MaxDuration
    /\ body.totalAmount >= 0

\* new Booking({...}): status takes the schema default
NewBooking(u, body) ==
    [client |-> u, consultant |-> body.consultant, category |-> body.category,
     date |-> body.date, startTime |-> body.startTime, endTime |-> body.endTime,
     duration |-> body.duration, status |-> "pending", totalAmount |-> body.totalAmount,
     notesConsultant |-> NoText, cancellationReason |-> NoText, cancelledBy |-> "",
     cancelledAt |-> NoDate, completedAt |-> NoDate,
     score |-> NoScore, review |-> NoText, ratedAt |-> NoDate]

BookingPaths == DOMAIN NewBooking(0, [consultant |-> 0, category |-> 0, date |-> 0,
                                      startTime |-> <<>>, endTime |-> <<>>, duration |-> 0,
                                      totalAmount |-> 0])

CreateBooking(u, now, body) ==
    IF ~RequireClient(u)
    THEN Answer("createBooking", 403, "Access denied. Required roles: client")
    ELSE IF ~CreateBookingBodyValid(body)
    THEN Answer("createBooking", 400, "Validation error")
    ELSE IF ~BookingSchemaValid(NewBooking(u, body), now)
    THEN \E code \in StoreErrorCodes :
             Answer("createBooking", code, "Booking date must be in the future")
    ELSE LET saved == BookingPreSave(consultants, NewBooking(u, body), BookingPaths, TRUE)
         IN  /\ bookings' = Append(bookings, saved.doc)
             /\ consultants' = saved.consultants
             /\ response' = Response("createBooking", 201, "Booking created successfully")
             /\ UNCHANGED <<categories, requests, users>>

\* booking.client.toString() === req.user._id.toString()
IsBookingClient(doc, u) == doc.client = u

-----------------------------------------------------------------------------
(* GET /api/bookings and GET /api/bookings/me *)

NoStatus == ""     \* no status parameter in the query string

\* mutant: the consultant branch sets no filter
ListQueryMatchesAnyConsultant(doc, u, status) ==
    /\ Role(u) = "client" => doc.client = u
    /\ status # NoStatus => doc.status = status

\* the query built from the caller's role and the status parameter
ListQueryMatches(doc, u, status) ==
    /\ Role(u) = "client" => doc.client = u
    /\ Role(u) = "consultant" => doc.consultant = FindConsultantByUser(u)
    /\ status # NoStatus => doc.status = status

\* .sort({ date: 1, startTime: 1 }): a comes strictly before b
SortsBefore(a, b) ==
    \/ a.date < b.date
    \/ a.date = b.date /\ StrLess(a.startTime, b.startTime)

\* the orders the store may return the matching bookings in (ties in any order)
SortedOrders(ids) ==
    {s \in [1..Cardinality(ids) -> ids] :
        /\ \A i, j \in 1..Cardinality(ids) : i # j => s[i] # s[j]
        /\ \A i, j \in 1..Cardinality(ids) :
               i < j => ~SortsBefore(bookings[s[j]], bookings[s[i]])}

\* .skip(skip).limit(limit)
SkipLimit(seq, skip, limit) ==
    SubSeq(seq, skip + 1, IF skip + limit < Len(seq) THEN skip + limit ELSE Len(seq))

\* what both list handlers do after the query is built; limit 0 stands for no limit
FindBookings(op, u, status, skip, limit, strictPopulate) ==
    IF Role(u) = "consultant" /\ FindConsultantByUser(u) = 0
    THEN Answer(op, 404, "Consultant profile not found")
    ELSE IF skip < 0
    THEN \E code \in StoreErrorCodes : Answer(op, code, "MongoServerError")
    ELSE IF strictPopulate
    THEN \E code \in StoreErrorCodes : Answer(op, code, "StrictPopulateError")
    ELSE \E s \in SortedOrders({i \in BookingIds : ListQueryMatches(bookings[i], u, status)}) :
             /\ response' = [Response(op, 200, "") EXCEPT
                                 !.data = SkipLimit(s, skip, IF limit = 0 THEN Len(s) ELSE limit),
                                 !.to = u]
             /\ UNCHANGED <<bookings, consultants, categories, requests, users>>

\* GET /api/bookings: the validators of status, page and limit are declared but the
\* handler never reads validationResult
ListBookings(u, status, page, limit, strictPopulate) ==
    FindBookings("listBookings", u, status, (page - 1) * limit, limit, strictPopulate)

\* GET /api/bookings/me
GetMyBookings(u, strictPopulate) ==
    FindBookings("myBookings", u, NoStatus, 0, 0, strictPopulate)

-----------------------------------------------------------------------------
(* GET /api/bookings/:id *)

\* booking.consultant after .populate('consultant.user'): consultant is an ObjectId path
\* of the booking schema and has no sub-path user, so nothing is populated and the
\* caller's check reads .user of an ObjectId, which is undefined (0)
PopulatedConsultantUser(doc) == 0

\* strictPopulate is the library's setting for populating a path that is not in the
\* schema: the query throws when it is on, and skips the path when it is off
GetBooking(u, id, strictPopulate) ==
    IF id \notin BookingIds
    THEN Answer("getBooking", 404, "Booking not found")
    ELSE IF strictPopulate
    THEN \E code \in StoreErrorCodes : Answer("getBooking", code, "StrictPopulateError")
    ELSE IF Role(u) = "consultant" /\ PopulatedConsultantUser(bookings[id]) = 0
    THEN \E code \in StoreErrorCodes : Answer("getBooking", code, "TypeError")
    ELSE IF /\ ~IsBookingClient(bookings[id], u)
            /\ ~(Role(u) = "consultant" /\ PopulatedConsultantUser(bookings[id]) = u)
            /\ Role(u) # "admin"
    THEN Answer("getBooking", 403, "Access denied")
    ELSE Answer("getBooking", 200, "")

-----------------------------------------------------------------------------
(* PUT /api/bookings/:id/status *)

ConsultantStatusValues == {"confirmed", "completed", "cancelled", "no-show"}

\* the assignments both status handlers make before save(); by is the caller's role
\* mutant: every cancellation is credited to the consultant
WithStatusByConsultant(doc, status, now, by) ==
    LET d1 == [doc EXCEPT !.status = status]
        d2 == IF status = "completed" THEN [d1 EXCEPT !.completedAt = now] ELSE d1
    IN  IF status = "cancelled"
        THEN [d2 EXCEPT !.cancelledAt = now, !.cancelledBy = "consultant"]
        ELSE d2

\* the status, and the stamps of the statuses completed and cancelled
WithStatus(doc, status, now, by) ==
    LET d1 == [doc EXCEPT !.status = status]
        d2 == IF status = "completed" THEN [d1 EXCEPT !.completedAt = now] ELSE d1
    IN  IF status = "cancelled"
        THEN [d2 EXCEPT !.cancelledAt = now, !.cancelledBy = by]
        ELSE d2

\* if (notes?.consultant) booking.notes.consultant = notes.consultant
WithConsultantNote(doc, note) ==
    IF note # NoText THEN [doc EXCEPT !.notesConsultant = note] ELSE doc

\* booking.save() of a loaded document
SaveBooking(op, id, new, code, message) ==
    LET saved == BookingPreSave(consultants, new, ModifiedPaths(bookings[id], new), FALSE)
    IN  /\ bookings' = [bookings EXCEPT ![id] = saved.doc]
        /\ consultants' = saved.consultants
        /\ response' = Response(op, code, message)
        /\ UNCHANGED <<categories, requests, users>>

UpdateBookingStatus(u, id, status, note, now) ==
    IF ~RequireConsultant(u)
    THEN Answer("updateStatus", 403, "Access denied. Required roles: consultant")
    ELSE IF status \notin ConsultantStatusValues \/ note > MaxNotesLen
    THEN Answer("updateStatus", 400, "Validation error")
    ELSE IF id \notin BookingIds
    THEN Answer("updateStatus", 404, "Booking not found")
    ELSE IF FindConsultantByUser(u) = 0 \/ bookings[id].consultant # FindConsultantByUser(u)
    THEN Answer("updateStatus", 403, "Access denied")
    ELSE SaveBooking("updateStatus", id,
                     WithStatus(WithConsultantNote(bookings[id], note), status, now, "consultant"),
                     200, "Booking status updated successfully")

-----------------------------------------------------------------------------
(* PUT /api/admin/bookings/:id/status *)

\* notes.admin is no path of the booking schema: the assignment is not stored
AdminUpdateBookingStatus(u, id, status, now) ==
    IF ~RequireAdmin(u)
    THEN Answer("adminUpdateStatus", 403, "Access denied. Required roles: admin")
    ELSE IF status \notin BookingStatuses
    THEN Answer("adminUpdateStatus", 400, "Validation error")
    ELSE IF id \notin BookingIds
    THEN Answer("adminUpdateStatus", 404, "Booking not found")
    ELSE SaveBooking("adminUpdateStatus", id, WithStatus(bookings[id], status, now, "admin"),
                     200, "Booking status updated successfully")

-----------------------------------------------------------------------------
(* POST /api/bookings/:id/cancel *)

\* mutant: only a booking that is already cancelled is refused
CanCancelUnlessCancelled(status) == status # "cancelled"

\* the statuses a client may cancel from
CanCancel(status) == status = "pending" \/ status = "confirmed"

\* the handler never reads validationResult: the length of reason is checked by the
\* schema's maxlength alone, when the document is saved
CancelBooking(u, id, reason, now) ==
    IF ~RequireClient(u)
    THEN Answer("cancel", 403, "Access denied. Required roles: client")
    ELSE IF id \notin BookingIds
    THEN Answer("cancel", 404, "Booking not found")
    ELSE IF ~IsBookingClient(bookings[id], u)
    THEN Answer("cancel", 403, "Access denied")
    ELSE IF ~CanCancel(bookings[id].status)
    THEN Answer("cancel", 400, "Booking cannot be cancelled in its current status")
    ELSE IF reason > MaxReasonLen
    THEN \E code \in StoreErrorCodes :
             Answer("cancel", code, "Cancellation reason cannot exceed 200 characters")
    ELSE SaveBooking("cancel", id,
                     [bookings[id] EXCEPT !.status = "cancelled", !.cancelledAt = now,
                                          !.cancelledBy = "client",
                                          !.cancellationReason =
                                              IF reason # NoText THEN reason ELSE @],
                     200, "Booking cancelled successfully")

-----------------------------------------------------------------------------
(* POST /api/bookings/:id/rate *)

\* mutant: a confirmed booking can be rated as well
CanRateOnceConfirmed(status) == status = "completed" \/ status = "confirmed"

\* the status a booking is rated in
CanRate(status) == status = "completed"

\* mutant: the test reads rating.review, which a rating need not carry
AlreadyRatedByReview(doc) == doc.review # NoText

\* if (booking.rating.score)
AlreadyRated(doc) == doc.score # NoScore

\* mutant: the query lacks the consultant filter
RatedBookingsOfAnyone(bks, c) == {i \in 1..Len(bks) : bks[i].score # NoScore}

\* Booking.find({ consultant, 'rating.score': { $exists: true } })
RatedBookings(bks, c) == {i \in 1..Len(bks) : bks[i].consultant = c /\ bks[i].score # NoScore}

\* allRatings.reduce((sum, b) => sum + b.rating.score, 0)
RECURSIVE TotalRating(_, _)
TotalRating(bks, ids) ==
    IF ids = {} THEN 0
    ELSE LET i == CHOOSE j \in ids : TRUE
         IN  bks[i].score + TotalRating(bks, ids \ {i})

\* the aggregate written to consultant.rating
RecomputeRating(bks, c) ==
    LET allRatings == RatedBookings(bks, c)
    IN  [average |-> Quotient(TotalRating(bks, allRatings), Cardinality(allRatings)),
         count |-> Cardinality(allRatings)]

RateBooking(u, id, score, review, now) ==
    IF ~RequireClient(u)
    THEN Answer("rate", 403, "Access denied. Required roles: client")
    ELSE IF score < MinScore \/ score > MaxScore \/ review > MaxReviewLen
    THEN Answer("rate", 400, "Validation error")
    ELSE IF id \notin BookingIds
    THEN Answer("rate", 404, "Booking not found")
    ELSE IF ~IsBookingClient(bookings[id], u)
    THEN Answer("rate", 403, "Access denied")
    ELSE IF ~CanRate(bookings[id].status)
    THEN Answer("rate", 400, "Can only rate completed bookings")
    ELSE IF AlreadyRated(bookings[id])
    THEN Answer("rate", 400, "Booking has already been rated")
    ELSE LET new == [bookings[id] EXCEPT !.score = score, !.review = review, !.ratedAt = now]
             saved == BookingPreSave(consultants, new, ModifiedPaths(bookings[id], new), FALSE)
             stored == [bookings EXCEPT ![id] = saved.doc]
             c == saved.doc.consultant
         IN  /\ bookings' = stored
             /\ consultants' =
                    IF c \in ConsultantIds /\ saved.consultants[c].exists
                    THEN [saved.consultants EXCEPT ![c].rating = RecomputeRating(stored, c)]
                    ELSE saved.consultants
             /\ response' = Response("rate", 200, "Booking rated successfully")
             /\ UNCHANGED <<categories, requests, users>>

-----------------------------------------------------------------------------
(* Consultant schema and routes *)

MinHourlyRate == 10
MaxHourlyRate == 1000
MaxAverage == 5

\* Category.updateMany({ _id: { $in: ids } }, { $inc: { consultantCount: by } })
IncConsultantCount(cats, ids, by) ==
    [k \in CategoryIds |->
        IF k \in ids /\ cats[k].exists
        THEN [cats[k] EXCEPT !.consultantCount = @ + by]
        ELSE cats[k]]

\* consultantSchema.pre('save'): category consultant counts
ConsultantPreSave(cats, doc, modified) ==
    IF "categories" \in modified
    THEN LET afterOld == IF Original(doc).defined
                         THEN IncConsultantCount(cats, Original(doc).categories, -1)
                         ELSE cats
         IN  IF doc.categories # {}
             THEN IncConsultantCount(afterOld, doc.categories, 1)
             ELSE afterOld
    ELSE cats

\* schema validators of the paths a request can set
ConsultantSchemaValid(doc) ==
    /\ doc.hourlyRate >= MinHourlyRate /\ doc.hourlyRate <= MaxHourlyRate
    /\ doc.rating.average.num >= 0
    /\ doc.rating.average.num <= MaxAverage * doc.rating.average.den

\* express-validator chain of POST / and PUT /:id, for the keys the body carries
ConsultantBodyValid(body, required) ==
    /\ required \subseteq body.keys
    /\ "categories" \in body.keys => body.values.categories # {}
    /\ "hourlyRate" \in body.keys =>
           body.values.hourlyRate >= MinHourlyRate /\ body.values.hourlyRate <= MaxHourlyRate

NewConsultant(u, body) ==
    [exists |-> TRUE, user |-> u, categories |-> body.values.categories,
     hourlyRate |-> body.values.hourlyRate, isActive |-> TRUE,
     totalBookings |-> 0, completedBookings |-> 0,
     rating |-> [average |-> ZeroAverage, count |-> 0]]

ConsultantPaths == DOMAIN NoConsultant \ {"exists"}

\* POST /api/consultants
CreateConsultant(u, id, body) ==
    /\ ~consultants[id].exists
    /\ IF ~RequireConsultant(u)
       THEN Answer("createConsultant", 403, "Access denied. Required roles: consultant")
       ELSE IF ~ConsultantBodyValid(body, {"categories", "hourlyRate"})
       THEN Answer("createConsultant", 400, "Validation error")
       ELSE IF FindConsultantByUser(u) # 0
       THEN Answer("createConsultant", 400, "Consultant profile already exists")
       ELSE /\ consultants' = [consultants EXCEPT ![id] = NewConsultant(u, body)]
            /\ categories' = ConsultantPreSave(categories, NewConsultant(u, body), ConsultantPaths)
            /\ response' = Response("createConsultant", 201, "Consultant profile created successfully")
            /\ UNCHANGED <<bookings, requests, users>>

\* the unique index on user: no other profile has this user
UserIndexAllows(cons, id, u) ==
    \A c \in ConsultantIds \ {id} : cons[c].exists => cons[c].user # u

\* a request in flight: what it read (loaded) and what it is about to save
Request(conn, op, u, id, loaded, body) ==
    [conn |-> conn, op |-> op, u |-> u, id |-> id, loaded |-> loaded, body |-> body]

Connections == {1, 2}

FreeConnection(conn) == \A r \in requests : r.conn # conn

\* POST /api/consultants up to the existing-profile check: the answer when the
\* request ends there, NoResponse when it goes on to the save
CreateConsultantChecks(u, body) ==
    IF ~RequireConsultant(u)
    THEN Response("createConsultant", 403, "Access denied. Required roles: consultant")
    ELSE IF ~ConsultantBodyValid(body, {"categories", "hourlyRate"})
    THEN Response("createConsultant", 400, "Validation error")
    ELSE IF FindConsultantByUser(u) # 0
    THEN Response("createConsultant", 400, "Consultant profile already exists")
    ELSE NoResponse

\* POST /api/consultants, first half: the request is in flight once its checks passed
CreateConsultantRead(conn, u, body) ==
    /\ FreeConnection(conn)
    /\ IF CreateConsultantChecks(u, body) # NoResponse
       THEN Answer("createConsultant", CreateConsultantChecks(u, body).code,
                   CreateConsultantChecks(u, body).message)
       ELSE /\ UNCHANGED users
            /\ requests' = requests \cup {Request(conn, "createConsultant", u, 0, NoConsultant, body)}
            /\ UNCHANGED <<bookings, consultants, categories, response>>

\* POST /api/consultants, second half: consultant.save() runs the pre('save') hook and
\* then inserts the document, which the unique index on user may refuse
CreateConsultantWrite(req, id) ==
    /\ req \in requests /\ req.op = "createConsultant"
    /\ ~consultants[id].exists
    /\ LET doc == NewConsultant(req.u, req.body)
       IN  /\ categories' = ConsultantPreSave(categories, doc, ConsultantPaths)
           /\ IF UserIndexAllows(consultants, id, doc.user)
              THEN /\ consultants' = [consultants EXCEPT ![id] = doc]
                   /\ response' = Response("createConsultant", 201,
                                           "Consultant profile created successfully")
              ELSE /\ UNCHANGED consultants
                   /\ \E code \in StoreErrorCodes :
                          response' = Response("createConsultant", code, "E11000 duplicate key")
    /\ UNCHANGED users
    /\ requests' = requests \ {req}
    /\ UNCHANGED bookings

\* Object.keys(req.body).forEach(key => consultant[key] = req.body[key])
ApplyBody(doc, body) ==
    [f \in DOMAIN doc |-> IF f \in body.keys THEN body.values[f] ELSE doc[f]]

\* PUT /api/consultants/:id
UpdateConsultant(u, id, body) ==
    IF ~ConsultantBodyValid(body, {})
    THEN Answer("updateConsultant", 400, "Validation error")
    ELSE IF id \notin ConsultantIds \/ ~consultants[id].exists
    THEN Answer("updateConsultant", 404, "Consultant not found")
    ELSE IF Role(u) # "admin" /\ consultants[id].user # u
    THEN Answer("updateConsultant", 403, "Access denied")
    ELSE IF ~ConsultantSchemaValid(ApplyBody(consultants[id], body))
    THEN \E code \in StoreErrorCodes : Answer("updateConsultant", code, "ValidationError")
    ELSE LET new == ApplyBody(consultants[id], body)
         IN  /\ categories' = ConsultantPreSave(categories, new, ModifiedPaths(consultants[id], new))
             /\ IF UserIndexAllows(consultants, id, new.user)
                THEN /\ consultants' = [consultants EXCEPT ![id] = new]
                     /\ response' = Response("updateConsultant", 200,
                                             "Consultant profile updated successfully")
                ELSE /\ UNCHANGED consultants
                     /\ \E code \in StoreErrorCodes :
                            response' = Response("updateConsultant", code, "E11000 duplicate key")
             /\ UNCHANGED <<bookings, requests, users>>

-----------------------------------------------------------------------------
(* Category schema and routes *)

MinNameLen == 2
MaxNameLen == 100
Dot == 46

ToUpperCase(c) == IF c \in 97..122 THEN c - 32 ELSE c
ToLowerCase(c) == IF c \in 65..90 THEN c + 32 ELSE c

\* name.charAt(0).toUpperCase() + name.slice(1).toLowerCase()
NormaliseName(name) ==
    [i \in 1..Len(name) |-> IF i = 1 THEN ToUpperCase(name[i]) ELSE ToLowerCase(name[i])]

\* new RegExp(`^${pattern}$`, 'i') matches name: the pattern is the request's name as
\* it came, so a '.' in it stands for any character
RegExpTest(pattern, name) ==
    /\ Len(pattern) = Len(name)
    /\ \A i \in 1..Len(name) :
           pattern[i] = Dot \/ ToLowerCase(pattern[i]) = ToLowerCase(name[i])

\* Category.findOne({ name: { $regex }, _id: { $ne: exceptId } }): the matches
FindCategoryByName(cats, name, exceptId) ==
    {k \in CategoryIds : cats[k].exists /\ k # exceptId /\ RegExpTest(name, cats[k].name)}

\* mutant: the collection has no unique index on name
NameIndexAllowsAll(cats, id, name) == TRUE

\* the unique index on name: no other category has this name
NameIndexAllows(cats, id, name) ==
    \A k \in CategoryIds \ {id} : cats[k].exists => cats[k].name # name

\* categorySchema.pre('save')
CategoryPreSave(doc) == [doc EXCEPT !.name = NormaliseName(@)]

\* express-validator chain of POST / and PUT /:id, for the keys the body carries
CategoryBodyValid(body, required) ==
    /\ required \subseteq body.keys
    /\ "name" \in body.keys =>
           Len(body.values.name) >= MinNameLen /\ Len(body.values.name) <= MaxNameLen

\* new Category({ name, description, icon, color, sortOrder })
NewCategory(body) ==
    [exists |-> TRUE, name |-> body.values.name, consultantCount |-> 0, bookingCount |-> 0]

\* POST /api/categories up to the duplicate check
CreateCategoryChecks(u, body) ==
    IF ~RequireAdmin(u)
    THEN Response("createCategory", 403, "Access denied. Required roles: admin")
    ELSE IF ~CategoryBodyValid(body, {"name"})
    THEN Response("createCategory", 400, "Validation error")
    ELSE IF FindCategoryByName(categories, body.values.name, 0) # {}
    THEN Response("createCategory", 400, "Category with this name already exists")
    ELSE NoResponse

\* category.save() of a new document
InsertCategory(id, body) ==
    LET doc == CategoryPreSave(NewCategory(body))
    IN  /\ IF NameIndexAllows(categories, id, doc.name)
           THEN /\ categories' = [categories EXCEPT ![id] = doc]
                /\ response' = Response("createCategory", 201, "Category created successfully")
           ELSE /\ UNCHANGED categories
                /\ \E code \in StoreErrorCodes :
                       response' = Response("createCategory", code, "E11000 duplicate key")
        /\ UNCHANGED <<bookings, consultants>>

\* POST /api/categories
CreateCategory(u, id, body) ==
    /\ ~categories[id].exists
    /\ IF CreateCategoryChecks(u, body) # NoResponse
       THEN Answer("createCategory", CreateCategoryChecks(u, body).code,
                   CreateCategoryChecks(u, body).message)
       ELSE InsertCategory(id, body) /\ UNCHANGED <<requests, users>>

\* POST /api/categories, first half: in flight once the duplicate check passed
CreateCategoryRead(conn, u, body) ==
    /\ FreeConnection(conn)
    /\ IF CreateCategoryChecks(u, body) # NoResponse
       THEN Answer("createCategory", CreateCategoryChecks(u, body).code,
                   CreateCategoryChecks(u, body).message)
       ELSE /\ UNCHANGED users
            /\ requests' = requests \cup {Request(conn, "createCategory", u, 0, NoCategory, body)}
            /\ UNCHANGED <<bookings, consultants, categories, response>>

\* POST /api/categories, second half: category.save()
CreateCategoryWrite(req, id) ==
    /\ req \in requests /\ req.op = "createCategory"
    /\ ~categories[id].exists
    /\ InsertCategory(id, req.body)
    /\ UNCHANGED users
    /\ requests' = requests \ {req}

\* PUT /api/categories/:id up to the uniqueness check
UpdateCategoryChecks(u, id, body) ==
    IF ~RequireAdmin(u)
    THEN Response("updateCategory", 403, "Access denied. Required roles: admin")
    ELSE IF ~CategoryBodyValid(body, {})
    THEN Response("updateCategory", 400, "Validation error")
    ELSE IF id \notin CategoryIds \/ ~categories[id].exists
    THEN Response("updateCategory", 404, "Category not found")
    ELSE IF /\ "name" \in body.keys
            /\ body.values.name # categories[id].name
            /\ FindCategoryByName(categories, body.values.name, id) # {}
    THEN Response("updateCategory", 400, "Category with this name already exists")
    ELSE NoResponse

\* the mass assignment of the body and category.save() of the loaded document: the
\* paths that differ from the loaded values are written to the stored document
SaveCategory(id, loaded, body) ==
    LET doc == CategoryPreSave(ApplyBody(loaded, body))
        modified == ModifiedPaths(loaded, doc)
        stored == [f \in DOMAIN doc |-> IF f \in modified THEN doc[f] ELSE categories[id][f]]
    IN  /\ IF ~categories[id].exists
           THEN /\ UNCHANGED categories
                /\ \E code \in StoreErrorCodes :
                       response' = Response("updateCategory", code, "DocumentNotFoundError")
           ELSE IF "name" \in modified /\ ~NameIndexAllows(categories, id, doc.name)
           THEN /\ UNCHANGED categories
                /\ \E code \in StoreErrorCodes :
                       response' = Response("updateCategory", code, "E11000 duplicate key")
           ELSE /\ categories' = [categories EXCEPT ![id] = stored]
                /\ response' = Response("updateCategory", 200, "Category updated successfully")
        /\ UNCHANGED <<bookings, consultants>>

\* PUT /api/categories/:id
UpdateCategory(u, id, body) ==
    IF UpdateCategoryChecks(u, id, body) # NoResponse
    THEN Answer("updateCategory", UpdateCategoryChecks(u, id, body).code,
                UpdateCategoryChecks(u, id, body).message)
    ELSE SaveCategory(id, categories[id], body) /\ UNCHANGED <<requests, users>>

\* PUT /api/categories/:id, first half: in flight with the document it loaded
UpdateCategoryRead(conn, u, id, body) ==
    /\ FreeConnection(conn)
    /\ IF UpdateCategoryChecks(u, id, body) # NoResponse
       THEN Answer("updateCategory", UpdateCategoryChecks(u, id, body).code,
                   UpdateCategoryChecks(u, id, body).message)
       ELSE /\ UNCHANGED users
            /\ requests' = requests \cup {Request(conn, "updateCategory", u, id, categories[id], body)}
            /\ UNCHANGED <<bookings, consultants, categories, response>>

\* PUT /api/categories/:id, second half: the assignments and category.save()
UpdateCategoryWrite(req) ==
    /\ req \in requests /\ req.op = "updateCategory"
    /\ SaveCategory(req.id, req.loaded, req.body)
    /\ UNCHANGED users
    /\ requests' = requests \ {req}

\* mutant: a category with a single consultant passes
HasConsultantsBeyondOne(doc) == doc.consultantCount > 1

\* if (category.consultantCount > 0)
HasConsultants(doc) == doc.consultantCount > 0

\* DELETE /api/categories/:id
DeleteCategory(u, id) ==
    IF ~RequireAdmin(u)
    THEN Answer("deleteCategory", 403, "Access denied. Required roles: admin")
    ELSE IF id \notin CategoryIds \/ ~categories[id].exists
    THEN Answer("deleteCategory", 404, "Category not found")
    ELSE IF HasConsultants(categories[id])
    THEN Answer("deleteCategory", 400, "Cannot delete category with active consultants")
    ELSE /\ categories' = [categories EXCEPT ![id] = NoCategory]
         /\ response' = Response("deleteCategory", 200, "Category deleted successfully")
         /\ UNCHANGED <<bookings, consultants, requests, users>>

-----------------------------------------------------------------------------
(* Rate and cancel, await by await: other requests run between a handler's awaits *)

\* the update document.save() sends: $set of the paths the handler or a hook
\* modified on the loaded document, every other path keeps its stored value
SetPaths(stored, paths, new) ==
    [f \in DOMAIN stored |-> IF f \in paths THEN new[f] ELSE stored[f]]

\* POST /:id/rate up to the already-rated check, on the stored document of now: the
\* answer when the request ends there, NoResponse when it goes on to the save
RateChecks(u, id, score, review) ==
    IF ~RequireClient(u)
    THEN Response("rate", 403, "Access denied. Required roles: client")
    ELSE IF score < MinScore \/ score > MaxScore \/ review > MaxReviewLen
    THEN Response("rate", 400, "Validation error")
    ELSE IF id \notin BookingIds
    THEN Response("rate", 404, "Booking not found")
    ELSE IF ~IsBookingClient(bookings[id], u)
    THEN Response("rate", 403, "Access denied")
    ELSE IF ~CanRate(bookings[id].status)
    THEN Response("rate", 400, "Can only rate completed bookings")
    ELSE IF AlreadyRated(bookings[id])
    THEN Response("rate", 400, "Booking has already been rated")
    ELSE NoResponse

\* await Booking.findById(req.params.id) and the checks on what it returned
RateRead(conn, u, id, score, review) ==
    /\ FreeConnection(conn)
    /\ IF RateChecks(u, id, score, review) # NoResponse
       THEN Answer("rate", RateChecks(u, id, score, review).code,
                   RateChecks(u, id, score, review).message)
       ELSE /\ UNCHANGED users
            /\ requests' = requests \cup
                    {Request(conn, "rate", u, id, bookings[id],
                             [score |-> score, review |-> review, stage |-> "loaded",
                              loadedRating |-> [average |-> ZeroAverage, count |-> 0],
                              rating |-> [average |-> ZeroAverage, count |-> 0]])}
            /\ UNCHANGED <<bookings, consultants, categories, response>>

\* booking.rating = { score, review, createdAt }; await booking.save()
RateSaveBooking(req, now) ==
    /\ req \in requests /\ req.op = "rate" /\ req.body.stage = "loaded"
    /\ LET new == [req.loaded EXCEPT !.score = req.body.score, !.review = req.body.review,
                                     !.ratedAt = now]
           saved == BookingPreSave(consultants, new, ModifiedPaths(req.loaded, new), FALSE)
           paths == ModifiedPaths(req.loaded, saved.doc) \cup {"score", "review", "ratedAt"}
       IN  /\ bookings' = [bookings EXCEPT ![req.id] = SetPaths(@, paths, saved.doc)]
           /\ consultants' = saved.consultants
    /\ UNCHANGED users
    /\ requests' = (requests \ {req}) \cup {[req EXCEPT !.body.stage = "saved"]}
    /\ UNCHANGED <<categories, response>>

\* the aggregate the handler computes from what Booking.find returned, kept by the
\* request until it saves the consultant
RateFindRatings(req) ==
    /\ req \in requests /\ req.op = "rate" /\ req.body.stage = "saved"
    /\ LET c == req.loaded.consultant
       IN  IF c \in ConsultantIds /\ consultants[c].exists
           THEN /\ UNCHANGED users
                /\ requests' = (requests \ {req}) \cup
                        {[req EXCEPT !.body.stage = "computed",
                                     !.body.loadedRating = consultants[c].rating,
                                     !.body.rating = RecomputeRating(bookings, c)]}
                /\ UNCHANGED response
           ELSE /\ UNCHANGED users
                /\ requests' = requests \ {req}
                /\ response' = Response("rate", 200, "Booking rated successfully")
    /\ UNCHANGED <<bookings, consultants, categories>>

\* two averages are the same number
SameQuotient(a, b) == a.num * b.den = b.num * a.den

\* await consultant.save(): $set of rating.average and rating.count where the
\* computed value differs from the loaded one
RateSaveConsultant(req) ==
    /\ req \in requests /\ req.op = "rate" /\ req.body.stage = "computed"
    /\ LET c == req.loaded.consultant
           loaded == req.body.loadedRating
           computed == req.body.rating
       IN  consultants' =
               [consultants EXCEPT
                   ![c].rating =
                       [average |-> IF SameQuotient(computed.average, loaded.average)
                                    THEN @.average ELSE computed.average,
                        count |-> IF computed.count = loaded.count
                                  THEN @.count ELSE computed.count]]
    /\ UNCHANGED users
    /\ requests' = requests \ {req}
    /\ response' = Response("rate", 200, "Booking rated successfully")
    /\ UNCHANGED <<bookings, categories>>

\* POST /:id/cancel up to the status check, on the stored document of now
CancelChecks(u, id) ==
    IF ~RequireClient(u)
    THEN Response("cancel", 403, "Access denied. Required roles: client")
    ELSE IF id \notin BookingIds
    THEN Response("cancel", 404, "Booking not found")
    ELSE IF ~IsBookingClient(bookings[id], u)
    THEN Response("cancel", 403, "Access denied")
    ELSE IF ~CanCancel(bookings[id].status)
    THEN Response("cancel", 400, "Booking cannot be cancelled in its current status")
    ELSE NoResponse

\* await Booking.findById(req.params.id) and the checks on what it returned
CancelRead(conn, u, id, reason) ==
    /\ FreeConnection(conn)
    /\ IF CancelChecks(u, id) # NoResponse
       THEN Answer("cancel", CancelChecks(u, id).code, CancelChecks(u, id).message)
       ELSE /\ UNCHANGED users
            /\ requests' = requests \cup
                    {Request(conn, "cancel", u, id, bookings[id], [reason |-> reason])}
            /\ UNCHANGED <<bookings, consultants, categories, response>>

\* the assignments on the loaded document and await booking.save()
CancelWrite(req, now) ==
    /\ req \in requests /\ req.op = "cancel"
    /\ UNCHANGED users
    /\ requests' = requests \ {req}
    /\ UNCHANGED categories
    /\ IF req.body.reason > MaxReasonLen
       THEN /\ \E code \in StoreErrorCodes :
                   response' = Response("cancel", code,
                                        "Cancellation reason cannot exceed 200 characters")
            /\ UNCHANGED <<bookings, consultants>>
       ELSE LET new == [req.loaded EXCEPT !.status = "cancelled", !.cancelledAt = now,
                                          !.cancelledBy = "client",
                                          !.cancellationReason =
                                              IF req.body.reason # NoText
                                              THEN req.body.reason ELSE @]
                paths == ModifiedPaths(req.loaded, new)
                saved == BookingPreSave(consultants, new, paths, FALSE)
            IN  /\ bookings' = [bookings EXCEPT
                                   ![req.id] = SetPaths(@, ModifiedPaths(req.loaded, saved.doc),
                                                        saved.doc)]
                /\ consultants' = saved.consultants
                /\ response' = Response("cancel", 200, "Booking cancelled successfully")

-----------------------------------------------------------------------------
(* Users: the seeded accounts, PUT /api/admin/users/:id/status, POST /api/auth/login *)

AdminEmail == "admin@zentro.com"
ClientEmail == "client1@zentro.com"
SecondClientEmail == "client2@zentro.com"
Emails == {AdminEmail, ClientEmail, SecondClientEmail}

\* the _id of the account of an email: the admin and the first two clients
UserIdOf(e) == IF e = AdminEmail THEN 5 ELSE IF e = ClientEmail THEN 1 ELSE 2

NoHash == [bcrypt |-> ""]
NoUser == [exists |-> FALSE, isActive |-> FALSE, password |-> NoHash, lastLogin |-> NoDate]

\* bcrypt.hash(password, rounds)
Hash(password) == [bcrypt |-> password]

\* bcrypt.compare(password, hash)
Compare(password, hash) == password # "" /\ hash = Hash(password)

\* an address as a request writes it: its lower-case form and whether it is written
\* in capitals; the empty name is no address
Email(name, upper) == [name |-> name, upper |-> upper]

\* isEmail()
IsEmail(email) == email.name # ""

\* normalizeEmail(): the address in lower case
NormalizeEmail(email) == [email EXCEPT !.upper = FALSE]

\* User.findOne({ email }): the stored address is in lower case
FindUserByEmail(email) ==
    IF ~email.upper /\ email.name \in Emails /\ users[email.name].exists
    THEN email.name ELSE ""

\* User.create({ email, password: hashedPassword, isActive: true, ... }) of the seed
\* script, after User.deleteMany({ email }) for the admin
SeedUser(e, password) ==
    /\ e # AdminEmail => ~users[e].exists
    /\ users' = [users EXCEPT ![e] = [exists |-> TRUE, isActive |-> TRUE,
                                      password |-> Hash(password), lastLogin |-> NoDate]]
    /\ response' = Response("seed", 0, "")
    /\ UNCHANGED <<bookings, consultants, categories, requests>>

\* an answer that leaves the users alone as well
AnswerUsers(op, code, message) ==
    /\ response' = Response(op, code, message)
    /\ UNCHANGED <<bookings, consultants, categories, requests, users>>

\* PUT /api/admin/users/:id/status
SetUserStatus(u, e, isActive) ==
    IF ~RequireAdmin(u)
    THEN AnswerUsers("setUserStatus", 403, "Access denied. Required roles: admin")
    ELSE IF ~users[e].exists
    THEN AnswerUsers("setUserStatus", 404, "User not found")
    ELSE IF UserIdOf(e) = u
    THEN AnswerUsers("setUserStatus", 400, "Cannot deactivate your own account")
    ELSE /\ users' = [users EXCEPT ![e].isActive = isActive]
         /\ response' = Response("setUserStatus", 200, "User status updated successfully")
         /\ UNCHANGED <<bookings, consultants, categories, requests>>

\* generateToken(user._id): the token carries the user's _id
GenerateToken(userId) == <<userId>>

\* isPasswordValid after the compare and after the bypass for the admin's address
LoginPasswordValid(email, password, hash) ==
    Compare(password, hash) \/ email.name = AdminEmail

\* POST /api/auth/login
Login(email, password, now) ==
    LET normal == NormalizeEmail(email)
        found == FindUserByEmail(normal)
    IN  IF ~IsEmail(email) \/ password = ""
        THEN AnswerUsers("login", 400, "Validation error")
        ELSE IF found = ""
        THEN AnswerUsers("login", 401, "Invalid credentials")
        ELSE IF ~users[found].isActive
        THEN AnswerUsers("login", 401, "Account is deactivated")
        ELSE IF ~LoginPasswordValid(normal, password, users[found].password)
        THEN AnswerUsers("login", 401, "Invalid credentials")
        ELSE /\ users' = [users EXCEPT ![found].lastLogin = now]
             /\ response' = [Response("login", 200, "Login successful") EXCEPT
                                !.data = GenerateToken(UserIdOf(found))]
             /\ UNCHANGED <<bookings, consultants, categories, requests>>

-----------------------------------------------------------------------------
(* Requests *)

T0900 == TimeString(9, 0, TRUE)      \* "09:00"
T900 == TimeString(9, 0, FALSE)      \* "9:00"
T1000 == TimeString(10, 0, TRUE)     \* "10:00"
T2330 == TimeString(23, 30, TRUE)    \* "23:30"
T2400 == <<50, 52, 58, 48, 48>>      \* "24:00", refused by the HH:MM pattern

\* totalAmount absent from the body (undefined): no number, so not >= 0
NoAmount == -1

BookingBody(consultant, category, date, startTime, endTime, duration, totalAmount) ==
    [consultant |-> consultant, category |-> category, date |-> date,
     startTime |-> startTime, endTime |-> endTime, duration |-> duration,
     totalAmount |-> totalAmount]

ConsultantBody(keys, values) == [keys |-> keys, values |-> values]

ConsultantValues(categorySet, hourlyRate, isActive, total, completed, rating) ==
    [user |-> 0, categories |-> categorySet, hourlyRate |-> hourlyRate, isActive |-> isActive,
     totalBookings |-> total, completedBookings |-> completed, rating |-> rating]

CategoryBody(keys, values) == [keys |-> keys, values |-> values]

CategoryValues(name, consultantCount, bookingCount) ==
    [name |-> name, consultantCount |-> consultantCount, bookingCount |-> bookingCount]

\* the smallest _id no category document has
FreeCategoryId(id) ==
    /\ id \in CategoryIds
    /\ ~categories[id].exists
    /\ \A j \in CategoryIds : j < id => categories[j].exists

\* the smallest _id no consultant document has yet
FreeConsultantId(id) ==
    /\ id \in ConsultantIds
    /\ ~consultants[id].exists
    /\ \A j \in ConsultantIds : j < id => consultants[j].exists

Init ==
    /\ bookings = <<>>
    /\ consultants = [c \in ConsultantIds |-> NoConsultant]
    /\ categories = [k \in CategoryIds |-> NoCategory]
    /\ response = NoResponse
    /\ requests = {}
    /\ users = [e \in Emails |-> NoUser]

-----------------------------------------------------------------------------------------------------------------------------------------------------
(* Spec: the whole life cycle of a booking *)

NoRating == [average |-> ZeroAverage, count |-> 0]

NewProfileBodies ==
    {ConsultantBody({"categories", "hourlyRate"}, ConsultantValues({1}, 60, TRUE, 0, 0, NoRating))}

\* one well-formed body per date, and one whose duration the validators refuse
LifeBookingBodies ==
    {BookingBody(1, 1, d, T0900, T1000, 60, 50) : d \in Dates}
        \cup {BookingBody(1, 1, 2, T0900, T1000, 20, 50)}

\* callers of cancel and rate (two clients and a consultant), and what they send
LifeClients == {1, 2, 3}
LifeReasons == {NoText, 17}
LifeScores == {0, 4}

Next ==
    \/ \E u \in {1, 3}, now \in Instants, body \in LifeBookingBodies :
           Len(bookings) < MaxLifeBookings /\ CreateBooking(u, now, body)
    \/ \E u \in {1, 3}, id \in 1..MaxLifeBookings, status \in BookingStatuses, now \in Instants :
           UpdateBookingStatus(u, id, status, NoText, now)
    \/ \E u \in {3, 5}, id \in 1..MaxLifeBookings, status \in BookingStatuses \cup {"done"},
          now \in Instants :
           AdminUpdateBookingStatus(u, id, status, now)
    \/ \E u \in LifeClients, id \in 1..MaxLifeBookings, reason \in LifeReasons, now \in Instants :
           CancelBooking(u, id, reason, now)
    \/ \E u \in LifeClients, id \in 1..MaxLifeBookings, score \in LifeScores, now \in Instants :
           RateBooking(u, id, score, NoText, now)
    \/ \E u \in {1, 3}, id \in ConsultantIds, body \in NewProfileBodies :
           FreeConsultantId(id) /\ CreateConsultant(u, id, body)

Spec == Init /\ [][Next]_vars

\* SpecCancel: the status writers and the client's cancel, without ratings
NextCancel ==
    \/ \E u \in {1, 3}, now \in Instants, body \in LifeBookingBodies :
           Len(bookings) < MaxLifeBookings /\ CreateBooking(u, now, body)
    \/ \E u \in {1, 3}, id \in 1..MaxLifeBookings, status \in BookingStatuses, now \in Instants :
           UpdateBookingStatus(u, id, status, NoText, now)
    \/ \E u \in {3, 5}, id \in 1..MaxLifeBookings, status \in BookingStatuses, now \in Instants :
           AdminUpdateBookingStatus(u, id, status, now)
    \/ \E u \in LifeClients, id \in 1..MaxLifeBookings, reason \in LifeReasons, now \in Instants :
           CancelBooking(u, id, reason, now)
    \/ \E u \in {1, 3}, id \in ConsultantIds, body \in NewProfileBodies :
           FreeConsultantId(id) /\ CreateConsultant(u, id, body)

SpecCancel == Init /\ [][NextCancel]_vars

\* SpecGuard: the status writers and the client's rate requests, without cancel
NextGuard ==
    \/ \E u \in {1, 3}, now \in Instants, body \in LifeBookingBodies :
           Len(bookings) < MaxLifeBookings /\ CreateBooking(u, now, body)
    \/ \E u \in {1, 3}, id \in 1..MaxLifeBookings, status \in BookingStatuses, now \in Instants :
           UpdateBookingStatus(u, id, status, NoText, now)
    \/ \E u \in {3, 5}, id \in 1..MaxLifeBookings, status \in BookingStatuses, now \in Instants :
           AdminUpdateBookingStatus(u, id, status, now)
    \/ \E u \in LifeClients, id \in 1..MaxLifeBookings, score \in LifeScores, now \in Instants :
           RateBooking(u, id, score, NoText, now)
    \/ \E u \in {1, 3}, id \in ConsultantIds, body \in NewProfileBodies :
           FreeConsultantId(id) /\ CreateConsultant(u, id, body)

SpecGuard == Init /\ [][NextGuard]_vars

-----------------------------------------------------------------------------
(* Claims on the life cycle (Spec) *)

TerminalStatuses == {"completed", "cancelled", "no-show"}

StoreUnchanged == UNCHANGED <<bookings, consultants, categories>>

\* C1: a booking whose status is completed, cancelled or no-show never takes a
\* different status again
C1_TerminalStatusIsFinal ==
    [][\A id \in BookingIds :
          bookings[id].status \in TerminalStatuses
              => bookings'[id].status = bookings[id].status]_vars

\* C4: a rate request by the booking's client on a booking that already carries a
\* rating.score is refused with a 400 (the already-rated message while the booking is
\* completed) and leaves every booking and every consultant as it was
C4_SecondRateRefused ==
    [][\A id \in BookingIds, score \in LifeScores, now \in Instants :
          (/\ bookings[id].score # NoScore
           /\ RateBooking(bookings[id].client, id, score, NoText, now))
              => /\ response'.code = 400
                 /\ CanRate(bookings[id].status) /\ score \in MinScore..MaxScore
                        => response'.message = "Booking has already been rated"
                 /\ StoreUnchanged]_vars

C4_Witness == response = Response("rate", 400, "Booking has already been rated")

\* C5: a rate request succeeds only for the booking's own client on a completed
\* booking; for any other caller or status it is refused with 403 or 400 and leaves
\* every booking and every consultant as it was
C5_RateOnlyOwnCompleted ==
    [][\A u \in LifeClients, id \in BookingIds, score \in LifeScores, now \in Instants :
          RateBooking(u, id, score, NoText, now)
              => /\ response'.code = 200
                        => bookings[id].client = u /\ bookings[id].status = "completed"
                 /\ bookings[id].client # u \/ bookings[id].status # "completed"
                        => response'.code \in {400, 403} /\ StoreUnchanged]_vars

C5_Witness ==
    /\ response = Response("rate", 400, "Can only rate completed bookings")
    /\ \E id \in BookingIds : bookings[id].status = "cancelled"

\* C6: a status update that moves a booking that was not completed into completed
\* increases the owning consultant's completedBookings by exactly 1
C6_CompletionCounted ==
    [][\A id \in BookingIds :
          (/\ bookings[id].status # "completed"
           /\ bookings'[id].status = "completed"
           /\ consultants[bookings[id].consultant].exists)
              => consultants'[bookings[id].consultant].completedBookings
                     = consultants[bookings[id].consultant].completedBookings + 1]_vars

\* C10: a cancel request by the owning client on a completed, cancelled or no-show
\* booking is refused with the 400 of an invalid state and leaves the booking as it was
C10_CancelTerminalRefused ==
    [][\A id \in BookingIds, reason \in LifeReasons, now \in Instants :
          (/\ bookings[id].status \in TerminalStatuses
           /\ CancelBooking(bookings[id].client, id, reason, now))
              => /\ response' = Response("cancel", 400,
                                         "Booking cannot be cancelled in its current status")
                 /\ StoreUnchanged]_vars

C10_Witness ==
    /\ response = Response("cancel", 400, "Booking cannot be cancelled in its current status")
    /\ \E id \in BookingIds : bookings[id].status = "completed"

\* C11: a cancel request by the owning client on a pending or confirmed booking, with
\* a reason of at most 200 characters, leaves the booking cancelled, cancelledBy
\* client, cancelledAt set and cancellationReason equal to the reason supplied
C11_CancelStoresReason ==
    [][\A id \in BookingIds, reason \in LifeReasons, now \in Instants :
          (/\ bookings[id].status \in {"pending", "confirmed"}
           /\ reason <= MaxReasonLen
           /\ CancelBooking(bookings[id].client, id, reason, now))
              => /\ bookings'[id].status = "cancelled"
                 /\ bookings'[id].cancelledBy = "client"
                 /\ bookings'[id].cancelledAt # NoDate
                 /\ bookings'[id].cancellationReason = reason]_vars

\* C12: no operation sets the status of a booking that has left pending back to pending
C12_NeverBackToPending ==
    [][\A id \in BookingIds :
          bookings[id].status # "pending" => bookings'[id].status # "pending"]_vars

-----------------------------------------------------------------------------
(* SpecStatus: every kind of caller sends PUT /api/bookings/:id/status *)

NextStatus ==
    \/ \E u \in {1, 2}, now \in Instants, body \in LifeBookingBodies :
           Len(bookings) < MaxLifeBookings /\ CreateBooking(u, now, body)
    \/ \E u \in Users, id \in 1..MaxLifeBookings, status \in BookingStatuses, now \in Instants :
           UpdateBookingStatus(u, id, status, NoText, now)
    \/ \E u \in {3, 4}, id \in ConsultantIds, body \in NewProfileBodies :
           FreeConsultantId(id) /\ CreateConsultant(u, id, body)

SpecStatus == Init /\ [][NextStatus]_vars

\* the caller is the user of the consultant profile the booking names
OwnsBookingAsConsultant(u, id) ==
    /\ bookings[id].consultant \in ConsultantIds
    /\ consultants[bookings[id].consultant].exists
    /\ consultants[bookings[id].consultant].user = u

\* C13: PUT /bookings/:id/status with a status it lists is accepted, and stores the
\* status, when the caller is the consultant who owns the booking or an admin; for
\* every other caller it is refused and the booking is unchanged
C13_StatusByOwnerOrAdmin ==
    [][\A u \in Users, id \in BookingIds, status \in ConsultantStatusValues, now \in Instants :
          UpdateBookingStatus(u, id, status, NoText, now)
              => IF Role(u) = "admin" \/ (Role(u) = "consultant" /\ OwnsBookingAsConsultant(u, id))
                 THEN response'.code = 200 /\ bookings'[id].status = status
                 ELSE response'.code = 403 /\ StoreUnchanged]_vars

-----------------------------------------------------------------------------
(* SpecDirectory: consultant profiles and categories, one request after another *)

MaxCount == 3    \* consultantCount up to which profiles are still created and updated

NameAb == <<65, 98>>     \* "Ab"
NameBa == <<66, 97>>     \* "Ba"

DirectoryCategoryBodies ==
    {CategoryBody({"name"}, CategoryValues(n, 0, 0)) : n \in {NameAb, NameBa}}

\* a category update may carry any key of the document: here the two counters
CategoryPatches ==
    {CategoryBody({"consultantCount"}, CategoryValues(NoName, 0, 0)),
     CategoryBody({"bookingCount"}, CategoryValues(NoName, 0, 2))}

DirectoryProfileBodies ==
    {ConsultantBody({"categories", "hourlyRate"}, ConsultantValues(cs, 60, TRUE, 0, 0, NoRating)) :
        cs \in {{1}, {1, 2}}}

\* profile updates: another category set, isActive, or a booking counter
DirectoryPatches ==
    {ConsultantBody({"categories"}, ConsultantValues(cs, 0, TRUE, 0, 0, NoRating)) :
        cs \in {{1}, {2}, {1, 2}}}
        \cup {ConsultantBody({"isActive"}, ConsultantValues({}, 0, a, 0, 0, NoRating)) :
                 a \in BOOLEAN}
        \cup {ConsultantBody({"totalBookings"}, ConsultantValues({}, 0, TRUE, 3, 0, NoRating))}

CountsBelow(n) == \A k \in CategoryIds : categories[k].consultantCount < n

\* a profile body names categories that are stored
NamesStoredCategories(body) == \A k \in body.values.categories : categories[k].exists

NextDirectory ==
    \/ \E u \in {3, 5}, id \in CategoryIds, body \in DirectoryCategoryBodies :
           FreeCategoryId(id) /\ CreateCategory(u, id, body)
    \/ \E u \in {3, 5}, id \in CategoryIds, body \in CategoryPatches :
           UpdateCategory(u, id, body)
    \/ \E u \in {3, 4}, id \in ConsultantIds, body \in DirectoryProfileBodies :
           /\ FreeConsultantId(id) /\ CountsBelow(MaxCount) /\ NamesStoredCategories(body)
           /\ CreateConsultant(u, id, body)
    \/ \E u \in {3, 4}, id \in ConsultantIds, body \in DirectoryPatches :
           /\ CountsBelow(MaxCount) /\ NamesStoredCategories(body)
           /\ UpdateConsultant(u, id, body)

SpecDirectory == Init /\ [][NextDirectory]_vars

\* SpecDelete: categories are created, counted and deleted
DeleteProfileBodies ==
    {ConsultantBody({"categories", "hourlyRate"}, ConsultantValues({1}, 60, TRUE, 0, 0, NoRating))}

DeletePatches ==
    {ConsultantBody({"categories"}, ConsultantValues(cs, 0, TRUE, 0, 0, NoRating)) :
        cs \in {{2}, {1, 2}}}

DeleteCategoryPatches == {CategoryBody({"consultantCount"}, CategoryValues(NoName, 0, 0))}

NextDelete ==
    \/ \E u \in {3, 5}, id \in CategoryIds, body \in DirectoryCategoryBodies :
           FreeCategoryId(id) /\ CreateCategory(u, id, body)
    \/ \E id \in CategoryIds, body \in DeleteCategoryPatches :
           UpdateCategory(5, id, body)
    \/ \E u \in {3, 5}, id \in CategoryIds :
           DeleteCategory(u, id)
    \/ \E u \in {3, 4}, id \in ConsultantIds, body \in DeleteProfileBodies :
           /\ FreeConsultantId(id) /\ CountsBelow(MaxCount) /\ NamesStoredCategories(body)
           /\ CreateConsultant(u, id, body)
    \/ \E u \in {3, 4}, id \in ConsultantIds, body \in DeletePatches :
           /\ CountsBelow(MaxCount) /\ NamesStoredCategories(body)
           /\ UpdateConsultant(u, id, body)

SpecDelete == Init /\ [][NextDelete]_vars

\* the active consultants whose category set contains category k
ActiveConsultantsOf(k) ==
    {c \in ConsultantIds :
        consultants[c].exists /\ consultants[c].isActive /\ k \in consultants[c].categories}

\* C14: every category's consultantCount is the number of active consultants whose
\* category set contains it
C14_CountIsActiveConsultants ==
    \A k \in CategoryIds :
        categories[k].exists
            => categories[k].consultantCount = Cardinality(ActiveConsultantsOf(k))

\* C15: a profile update that changes the category set from S to T takes 1 from the
\* consultantCount of every category of S \ T, adds 1 to every category of T \ S and
\* leaves every category of both S and T as it was
C15_CountFollowsSetChange ==
    [][\A id \in ConsultantIds :
          (/\ response'.op = "updateConsultant" /\ response'.code = 200
           /\ consultants[id].exists
           /\ consultants'[id].categories # consultants[id].categories)
              => LET S == consultants[id].categories
                     T == consultants'[id].categories
                 IN  \A k \in CategoryIds :
                         categories[k].exists
                             => categories'[k].consultantCount
                                    = categories[k].consultantCount
                                          + (IF k \in T \ S THEN 1 ELSE 0)
                                          - (IF k \in S \ T THEN 1 ELSE 0)]_vars

\* C16: a consultant update leaves totalBookings, completedBookings and rating of every
\* profile as they were, and a category update leaves consultantCount and bookingCount
\* of every category as they were, whatever the body carries
C16_NoDirectWriteOfAggregates ==
    [][/\ response'.op = "updateConsultant"
           => \A c \in ConsultantIds :
                  /\ consultants'[c].totalBookings = consultants[c].totalBookings
                  /\ consultants'[c].completedBookings = consultants[c].completedBookings
                  /\ consultants'[c].rating = consultants[c].rating
       /\ response'.op = "updateCategory"
           => \A k \in CategoryIds :
                  /\ categories'[k].consultantCount = categories[k].consultantCount
                  /\ categories'[k].bookingCount = categories[k].bookingCount]_vars

\* C17: a delete request for a category whose consultantCount is above 0 is answered
\* 400 and the category stays stored as it was; so no step removes a category whose
\* consultantCount is above 0
C17_DeleteRefusedWhileCounted ==
    [][\A k \in CategoryIds :
          /\ (categories[k].exists /\ categories[k].consultantCount > 0 /\ DeleteCategory(5, k))
                 => /\ response' = Response("deleteCategory", 400,
                                            "Cannot delete category with active consultants")
                    /\ StoreUnchanged
          /\ (categories[k].exists /\ categories[k].consultantCount > 0)
                 => categories'[k].exists]_vars

C17_Witness ==
    /\ response = Response("deleteCategory", 400, "Cannot delete category with active consultants")
    /\ \E k \in CategoryIds : categories[k].exists /\ categories[k].consultantCount > 0

-----------------------------------------------------------------------------
(* SpecNames: category creates and renames in flight at the same time *)

NameaB == <<97, 66>>     \* "aB"
NameADot == <<65, 46>>   \* "A."
NameB == <<66>>          \* "B", refused by the validators

NamesCategoryBodies ==
    {CategoryBody({"name"}, CategoryValues(n, 0, 0)) : n \in {NameAb, NameaB, NameBa, NameADot, NameB}}

NextNames ==
    \/ \E conn \in Connections, u \in {3, 5}, body \in NamesCategoryBodies :
           CreateCategoryRead(conn, u, body)
    \/ \E req \in requests, id \in CategoryIds :
           FreeCategoryId(id) /\ CreateCategoryWrite(req, id)
    \/ \E conn \in Connections, u \in {3, 5}, id \in CategoryIds, body \in NamesCategoryBodies :
           UpdateCategoryRead(conn, u, id, body)
    \/ \E req \in requests :
           UpdateCategoryWrite(req)

SpecNames == Init /\ [][NextNames]_vars

EqualIgnoringCase(a, b) ==
    /\ Len(a) = Len(b)
    /\ \A i \in 1..Len(a) : ToLowerCase(a[i]) = ToLowerCase(b[i])

\* the name is, ignoring case, the name of a stored category other than exceptId
UsedByAnother(name, exceptId) ==
    \E k \in CategoryIds \ {exceptId} :
        categories[k].exists /\ EqualIgnoringCase(categories[k].name, name)

\* the update in flight changes the name of the document it loaded
IsRename(req) ==
    req.op = "updateCategory" /\ NormaliseName(req.body.values.name) # req.loaded.name

\* C18: no two stored categories have names equal ignoring case, also when creates and
\* renames interleave between their duplicate check and their save; and a create or a
\* rename to a name that another category has is refused, at its check or at its save,
\* and changes nothing (an update that carries the name it loaded is no rename: its
\* save writes no name)
C18_NamesUniqueIgnoringCase ==
    [][/\ \A k, j \in CategoryIds :
              (k # j /\ categories'[k].exists /\ categories'[j].exists)
                  => ~EqualIgnoringCase(categories'[k].name, categories'[j].name)
       /\ \A conn \in Connections, body \in NamesCategoryBodies :
              (/\ CategoryBodyValid(body, {"name"})
               /\ UsedByAnother(body.values.name, 0)
               /\ CreateCategoryRead(conn, 5, body))
                  => response'.code = 400 /\ StoreUnchanged /\ UNCHANGED <<requests, users>>
       /\ \A conn \in Connections, id \in CategoryIds, body \in NamesCategoryBodies :
              (/\ CategoryBodyValid(body, {"name"})
               /\ categories[id].exists
               /\ UsedByAnother(body.values.name, id)
               /\ UpdateCategoryRead(conn, 5, id, body))
                  => response'.code = 400 /\ StoreUnchanged /\ UNCHANGED <<requests, users>>
       /\ \A req \in requests :
              (/\ UsedByAnother(req.body.values.name, req.id)
               /\ \/ \E id \in CategoryIds : FreeCategoryId(id) /\ CreateCategoryWrite(req, id)
                  \/ UpdateCategoryWrite(req))
                  => /\ StoreUnchanged
                     /\ (req.op = "createCategory" \/ IsRename(req))
                            => response'.code \in StoreErrorCodes]_vars

\* a save that lost the race was refused by the unique index
C18_Witness ==
    /\ response.op \in {"createCategory", "updateCategory"}
    /\ response.message = "E11000 duplicate key"
    /\ \E k \in CategoryIds : categories[k].exists

-----------------------------------------------------------------------------
(* SpecProfiles: profile creates in flight at the same time, and profile updates *)

\* a profile update may carry any key of the document: here user
UserPatches ==
    {ConsultantBody({"user"}, [ConsultantValues({}, 0, TRUE, 0, 0, NoRating) EXCEPT !.user = u]) :
        u \in {3, 4}}

NextProfiles ==
    \/ \E id \in CategoryIds, body \in DirectoryCategoryBodies :
           FreeCategoryId(id) /\ CreateCategory(5, id, body)
    \/ \E conn \in Connections, u \in {1, 3, 4}, body \in DeleteProfileBodies :
           NamesStoredCategories(body) /\ CreateConsultantRead(conn, u, body)
    \/ \E req \in requests, id \in ConsultantIds :
           FreeConsultantId(id) /\ CountsBelow(MaxCount) /\ CreateConsultantWrite(req, id)
    \/ \E u \in {3, 4}, id \in ConsultantIds, body \in UserPatches :
           UpdateConsultant(u, id, body)

SpecProfiles == Init /\ [][NextProfiles]_vars

HasProfile(u) == \E c \in ConsultantIds : consultants[c].exists /\ consultants[c].user = u

\* C19: no user owns more than one consultant profile, also when two creates by one
\* user interleave between the existing-profile check and the save; and a create by a
\* user who already has a profile is refused, at its check or at its save, and leaves
\* every profile and every category counter as it was
C19_OneProfilePerUser ==
    [][/\ \A c, d \in ConsultantIds :
              (c # d /\ consultants'[c].exists /\ consultants'[d].exists)
                  => consultants'[c].user # consultants'[d].user
       /\ \A conn \in Connections, u \in {3, 4}, body \in DeleteProfileBodies :
              (HasProfile(u) /\ CreateConsultantRead(conn, u, body))
                  => response'.code = 400 /\ StoreUnchanged /\ UNCHANGED <<requests, users>>
       /\ \A req \in requests, id \in ConsultantIds :
              (HasProfile(req.u) /\ FreeConsultantId(id) /\ CreateConsultantWrite(req, id))
                  => response'.code \in StoreErrorCodes /\ StoreUnchanged]_vars

-----------------------------------------------------------------------------
(* SpecGet: every kind of caller reads a booking *)

NextGet ==
    \/ \E u \in {1, 2}, now \in Instants, body \in LifeBookingBodies :
           Len(bookings) < MaxLifeBookings /\ CreateBooking(u, now, body)
    \/ \E u \in {3, 4}, id \in ConsultantIds, body \in NewProfileBodies :
           FreeConsultantId(id) /\ CreateConsultant(u, id, body)
    \/ \E u \in Users, id \in 1..MaxLifeBookings, strictPopulate \in BOOLEAN :
           GetBooking(u, id, strictPopulate)

SpecGet == Init /\ [][NextGet]_vars

\* C20: GET /bookings/:id answers 200 with the booking when the caller is the booking's
\* client, the user of the booking's consultant profile or an admin, and 403 for every
\* other caller
C20_GetByOwnersOrAdmin ==
    [][\A u \in Users, id \in BookingIds, strictPopulate \in BOOLEAN :
          GetBooking(u, id, strictPopulate)
              => IF \/ IsBookingClient(bookings[id], u)
                    \/ OwnsBookingAsConsultant(u, id)
                    \/ Role(u) = "admin"
                 THEN response'.code = 200
                 ELSE response'.code = 403]_vars

-----------------------------------------------------------------------------
(* SpecList: clients, consultants and admins list bookings *)

\* the later booking of the day is for consultant 1, the earlier for consultant 2
ListBookingBodies ==
    {BookingBody(1, 1, 2, T2330, T1000, 60, 50), BookingBody(2, 1, 2, T0900, T1000, 60, 50)}

\* callers of the lists: a client, both consultants and an admin
ListCallers == {1, 3, 4, 5}
ListStatuses == {NoStatus, "confirmed"}

\* <<page, limit>> of a request
ListPages == {<<0, 1>>, <<1, 1>>, <<2, 1>>}

NextList ==
    \/ \E u \in {1, 2}, body \in ListBookingBodies, now \in Instants :
           /\ Len(bookings) < MaxBookings
           /\ u = 2 => body.consultant = 2
           /\ CreateBooking(u, now, body)
    \/ \E u \in {3, 4}, id \in ConsultantIds, body \in NewProfileBodies :
           FreeConsultantId(id) /\ CreateConsultant(u, id, body)
    \/ \E u \in {3, 4}, id \in 1..MaxBookings, now \in Instants :
           UpdateBookingStatus(u, id, "confirmed", NoText, now)
    \/ \E u \in ListCallers, status \in ListStatuses, page \in ListPages,
          strictPopulate \in BOOLEAN :
           ListBookings(u, status, page[1], page[2], strictPopulate)
    \/ \E u \in ListCallers, strictPopulate \in BOOLEAN :
           GetMyBookings(u, strictPopulate)

SpecList == Init /\ [][NextList]_vars

\* the _ids a list answer carries
Listed(r) == {r.data[i] : i \in 1..Len(r.data)}

\* C21: a list answered to a client carries only bookings whose client is the caller,
\* and a list answered to a consultant only bookings of the caller's own profile, for
\* every status filter and page
C21_ListIsRoleScoped ==
    response.op \in {"listBookings", "myBookings"}
        => \A i \in Listed(response) :
               /\ i \in BookingIds
               /\ Role(response.to) = "client" => bookings[i].client = response.to
               /\ Role(response.to) = "consultant" => OwnsBookingAsConsultant(response.to, i)

\* a consultant was answered a list that leaves out a stored booking of another profile
C21_Witness ==
    /\ response.op = "listBookings" /\ response.code = 200
    /\ Role(response.to) = "consultant"
    /\ Len(response.data) = 1
    /\ bookings[response.data[1]].consultant = 2
    /\ \E i \in BookingIds : bookings[i].consultant = 1 /\ consultants[1].exists
    /\ consultants[2].exists

-----------------------------------------------------------------------------
(* SpecAmount: bookings are created with and without a total amount *)

AmountBookingBodies ==
    {BookingBody(c, 1, 2, T0900, T1000, dur, amount) :
        c \in ConsultantIds, dur \in {30, 60}, amount \in {NoAmount, 0, 50}}

AmountProfileBodies ==
    {ConsultantBody({"categories", "hourlyRate"}, ConsultantValues({1}, rate, TRUE, 0, 0, NoRating)) :
        rate \in {60, 120}}

NextAmount ==
    \/ \E u \in {1, 3}, body \in AmountBookingBodies, now \in Instants :
           Len(bookings) < MaxLifeBookings /\ CreateBooking(u, now, body)
    \/ \E u \in {3, 4}, id \in ConsultantIds, body \in AmountProfileBodies :
           FreeConsultantId(id) /\ CreateConsultant(u, id, body)

SpecAmount == Init /\ [][NextAmount]_vars

\* C22: a booking created without a totalAmount in the body is stored with the
\* consultant's hourlyRate * duration / 60, and a booking created with a totalAmount
\* is stored with that amount
C22_TotalAmountStored ==
    [][\A body \in AmountBookingBodies, now \in Instants :
          (/\ CreateBooking(1, now, body)
           /\ response'.code = 201
           /\ consultants[body.consultant].exists)
              => bookings'[Len(bookings')].totalAmount * 60
                     = IF body.totalAmount = NoAmount
                       THEN consultants[body.consultant].hourlyRate * body.duration
                       ELSE body.totalAmount * 60]_vars

\* C23: a create request that names a consultant or a category that is not stored is
\* answered 404 and stores no booking, so every booking names a stored consultant and
\* a stored category when it is created
C23_CreateNeedsStoredReferences ==
    [][/\ Len(bookings') = Len(bookings) + 1
           => /\ bookings'[Len(bookings')].consultant \in ConsultantIds
              /\ consultants[bookings'[Len(bookings')].consultant].exists
              /\ bookings'[Len(bookings')].category \in CategoryIds
              /\ categories[bookings'[Len(bookings')].category].exists
       /\ \A body \in AmountBookingBodies, now \in Instants :
              (/\ CreateBooking(1, now, body)
               /\ CreateBookingBodyValid(body)
               /\ ~consultants[body.consultant].exists \/ ~categories[body.category].exists)
                  => response'.code = 404 /\ StoreUnchanged]_vars

-----------------------------------------------------------------------------
(* SpecRate: bookings of two consultants are completed and rated *)

RateBookingBodies == {BookingBody(c, 1, 2, T0900, T1000, 60, 50) : c \in ConsultantIds}

RateScores == {3, 4}

\* a profile update may carry any key of the document: here it overwrites rating
RatingPatches ==
    {ConsultantBody({"rating"},
                    ConsultantValues({}, 0, TRUE, 0, 0, [average |-> Quotient(5, 1), count |-> 7]))}

NextRate ==
    \/ \E body \in RateBookingBodies, now \in Instants :
           Len(bookings) < MaxBookings /\ CreateBooking(1, now, body)
    \/ \E u \in {3, 4}, id \in 1..MaxBookings, now \in Instants :
           UpdateBookingStatus(u, id, "completed", NoText, now)
    \/ \E id \in 1..MaxBookings, score \in RateScores, now \in Instants :
           RateBooking(1, id, score, NoText, now)
    \/ \E u \in {3, 4}, id \in ConsultantIds, body \in NewProfileBodies :
           FreeConsultantId(id) /\ CreateConsultant(u, id, body)
    \/ \E u \in {3, 4}, id \in ConsultantIds, body \in RatingPatches :
           UpdateConsultant(u, id, body)

SpecRate == Init /\ [][NextRate]_vars

\* the scores of the first n bookings that belong to consultant c, added up
RECURSIVE ScoreSum(_, _, _)
ScoreSum(bks, c, n) ==
    IF n = 0 THEN 0
    ELSE ScoreSum(bks, c, n - 1) + (IF bks[n].consultant = c THEN bks[n].score ELSE 0)

RatedCount(bks, c) ==
    Cardinality({i \in 1..Len(bks) : bks[i].consultant = c /\ bks[i].score \in MinScore..MaxScore})

\* C3: right after a successful rate request the owning consultant's rating.count is
\* the number of that consultant's rated bookings and rating.average is the mean of
\* their scores
C3_RatingIsMeanOfScores ==
    [][\A id \in BookingIds, score \in RateScores, now \in Instants :
          (/\ RateBooking(bookings[id].client, id, score, NoText, now)
           /\ response'.code = 200
           /\ consultants[bookings[id].consultant].exists)
              => LET c == bookings[id].consultant
                     rating == consultants'[c].rating
                 IN  /\ rating.count = RatedCount(bookings', c)
                     /\ rating.count > 0
                     /\ rating.average.den > 0
                     /\ rating.average.num * rating.count
                            = ScoreSum(bookings', c, Len(bookings')) * rating.average.den]_vars

C3_Witness ==
    /\ response = Response("rate", 200, "Booking rated successfully")
    /\ \E c \in ConsultantIds :
           /\ consultants[c].rating = [average |-> Quotient(7, 2), count |-> 2]
           /\ RatedCount(bookings, c) = 2

-----------------------------------------------------------------------------
(* SpecCreate: bookings are created from every kind of body *)

CreateStartTimes == {T0900, T900, T2330}
CreateDurations == {30, 60}

\* the bodies the validators accept, and one refused for each of: the start time, the
\* duration, the date
CreateBookingBodies ==
    {BookingBody(c, 1, 2, start, T1000, dur, 50) :
        c \in ConsultantIds, start \in CreateStartTimes, dur \in CreateDurations}
        \cup {BookingBody(1, 1, 2, T2400, T1000, 60, 50),
              BookingBody(1, 1, 2, T0900, T1000, 20, 50),
              BookingBody(1, 1, 1, T0900, T1000, 60, 50)}

\* a profile update may carry any key of the document: here the booking counters
CounterPatches ==
    {ConsultantBody({"completedBookings"}, ConsultantValues({}, 0, TRUE, 0, 1, NoRating)),
     ConsultantBody({"totalBookings"}, ConsultantValues({}, 0, TRUE, 0, 0, NoRating))}

NextCreate ==
    \/ \E u \in {1, 3}, body \in CreateBookingBodies, now \in Instants :
           Len(bookings) < MaxBookings /\ CreateBooking(u, now, body)
    \/ \E u \in {3, 4}, id \in ConsultantIds, body \in NewProfileBodies :
           FreeConsultantId(id) /\ CreateConsultant(u, id, body)
    \/ \E u \in {3, 4}, id \in ConsultantIds, body \in CounterPatches :
           UpdateConsultant(u, id, body)

SpecCreate == Init /\ [][NextCreate]_vars

\* the minutes after midnight an HH:MM string names, with a one- or two-digit hour
MinutesOf(s) ==
    IF Len(s) = 4
    THEN (s[1] - 48) * 60 + (s[3] - 48) * 10 + (s[4] - 48)
    ELSE ((s[1] - 48) * 10 + (s[2] - 48)) * 60 + (s[4] - 48) * 10 + (s[5] - 48)

\* [startTime, endTime) of a and of b overlap
Overlap(a, b) ==
    /\ MinutesOf(a.startTime) < MinutesOf(b.endTime)
    /\ MinutesOf(b.startTime) < MinutesOf(a.endTime)

\* C2: no two stored bookings of one consultant on one date, both neither cancelled
\* nor no-show, have overlapping [startTime, endTime) intervals
C2_NoOverlappingBookings ==
    \A i, j \in BookingIds :
        (/\ i < j
         /\ bookings[i].consultant = bookings[j].consultant
         /\ bookings[i].date = bookings[j].date
         /\ bookings[i].status \notin {"cancelled", "no-show"}
         /\ bookings[j].status \notin {"cancelled", "no-show"}
         /\ MatchesHHMM(bookings[i].endTime) /\ MatchesHHMM(bookings[j].endTime))
            => ~Overlap(bookings[i], bookings[j])

\* C7: every consultant has completedBookings <= totalBookings
C7_CompletedAtMostTotal ==
    \A c \in ConsultantIds :
        consultants[c].exists => consultants[c].completedBookings <= consultants[c].totalBookings

\* C8: a successful create request adds exactly 1 to the totalBookings of the
\* consultant it names and nothing to any other; a refused one changes no consultant
C8_CreateCountsOnce ==
    [][response'.op = "createBooking"
          => IF response'.code = 201
             THEN /\ Len(bookings') = Len(bookings) + 1
                  /\ \A c \in ConsultantIds :
                         consultants[c].exists
                             => consultants'[c].totalBookings
                                    = consultants[c].totalBookings
                                          + (IF c = bookings'[Len(bookings')].consultant
                                             THEN 1 ELSE 0)
             ELSE StoreUnchanged]_vars

C8_Witness ==
    /\ response = Response("createBooking", 201, "Booking created successfully")
    /\ Len(bookings) = 2
    /\ \E c \in ConsultantIds : consultants[c].exists /\ consultants[c].totalBookings = 2

\* C9: every stored booking has endTime = startTime + duration minutes on the
\* 24-hour clock, for every start time the HH:MM pattern accepts
C9_EndTimeIsStartPlusDuration ==
    \A id \in BookingIds :
        /\ MatchesHHMM(bookings[id].endTime)
        /\ MinutesOf(bookings[id].endTime)
               = (MinutesOf(bookings[id].startTime) + bookings[id].duration) % 1440

-----------------------------------------------------------------------------
(* SpecRateRace: rate requests for different bookings, interleaved at their awaits *)

\* the request has answered: its connection carries no request in the next state
Finishes(req) == req \in requests /\ \A r \in requests' : r.conn # req.conn

NextRateRace ==
    \/ \E u \in {3, 4}, id \in ConsultantIds, body \in NewProfileBodies :
           FreeConsultantId(id) /\ CreateConsultant(u, id, body)
    \/ \E body \in RateBookingBodies, now \in Instants :
           /\ Len(bookings) < MaxBookings
           /\ consultants[body.consultant].exists
           /\ CreateBooking(1, now, body)
    \/ \E u \in {3, 4}, id \in 1..MaxBookings, now \in Instants :
           UpdateBookingStatus(u, id, "completed", NoText, now)
    \/ \E conn \in Connections, id \in 1..MaxBookings, score \in RateScores :
           /\ \A r \in requests : r.id # id
           /\ RateRead(conn, 1, id, score, NoText)
    \/ \E req \in requests, now \in Instants : RateSaveBooking(req, now)
    \/ \E req \in requests : RateFindRatings(req)
    \/ \E req \in requests : RateSaveConsultant(req)

SpecRateRace == Init /\ [][NextRateRace]_vars

\* C24: once the rate requests for different bookings of a consultant have all
\* answered, however their steps interleaved, the consultant's rating.count is the
\* number of the consultant's rated bookings and rating.average the mean of their scores
C24_InterleavedRatesAggregate ==
    requests = {}
        => \A c \in ConsultantIds :
               (consultants[c].exists /\ RatedCount(bookings, c) > 0)
                   => LET rating == consultants[c].rating
                      IN  /\ rating.count = RatedCount(bookings, c)
                          /\ rating.average.num * rating.count
                                 = ScoreSum(bookings, c, Len(bookings)) * rating.average.den

-----------------------------------------------------------------------------
(* SpecRateTwice: rate requests for one booking, interleaved at their awaits *)

NextRateTwice ==
    \/ \E u \in {3, 4}, id \in ConsultantIds, body \in NewProfileBodies :
           FreeConsultantId(id) /\ CreateConsultant(u, id, body)
    \/ \E body \in RateBookingBodies, now \in Instants :
           Len(bookings) < MaxLifeBookings /\ CreateBooking(1, now, body)
    \/ \E u \in {3, 4}, id \in 1..MaxLifeBookings, now \in Instants :
           UpdateBookingStatus(u, id, "completed", NoText, now)
    \/ \E conn \in Connections, u \in {1, 2}, id \in 1..MaxLifeBookings, score \in RateScores,
          review \in {NoText, 9} :
           RateRead(conn, u, id, score, review)
    \/ \E req \in requests, now \in Instants : RateSaveBooking(req, now)
    \/ \E req \in requests : RateFindRatings(req)
    \/ \E req \in requests : RateSaveConsultant(req)

SpecRateTwice == Init /\ [][NextRateTwice]_vars

\* C25: of the rate requests for one unrated booking at most one is answered 200, and
\* when it is answered the stored rating is the one it sent
C25_OneRateSucceeds ==
    [][\A req \in requests :
          (req.op = "rate" /\ Finishes(req) /\ response'.code = 200)
              => /\ bookings'[req.id].score = req.body.score
                 /\ bookings'[req.id].review = req.body.review
                 /\ \A r \in requests' : r.op = "rate" => r.id # req.id]_vars

-----------------------------------------------------------------------------
(* SpecCancelRace: a cancel interleaved with the status writers *)

NextCancelRace ==
    \/ \E u \in {1, 3}, now \in Instants, body \in LifeBookingBodies :
           Len(bookings) < MaxLifeBookings /\ CreateBooking(u, now, body)
    \/ \E id \in 1..MaxLifeBookings, status \in {"confirmed", "completed"}, now \in Instants :
           UpdateBookingStatus(3, id, status, NoText, now)
    \/ \E id \in 1..MaxLifeBookings, status \in {"cancelled", "no-show"}, now \in Instants :
           AdminUpdateBookingStatus(5, id, status, now)
    \/ \E conn \in Connections, u \in {1, 2}, id \in 1..MaxLifeBookings,
          reason \in LifeReasons :
           CancelRead(conn, u, id, reason)
    \/ \E req \in requests, now \in Instants : CancelWrite(req, now)
    \/ \E u \in {1, 3}, id \in ConsultantIds, body \in NewProfileBodies :
           FreeConsultantId(id) /\ CreateConsultant(u, id, body)

SpecCancelRace == Init /\ [][NextCancelRace]_vars

\* C26: the save of a cancel request leaves the status alone when the stored status
\* is completed, cancelled or no-show by then
C26_CancelKeepsTerminalStatus ==
    [][\A req \in requests :
          (/\ req.op = "cancel" /\ Finishes(req)
           /\ bookings[req.id].status \in TerminalStatuses)
              => bookings'[req.id].status = bookings[req.id].status]_vars

-----------------------------------------------------------------------------
(* Claims on the stamps and the rating of a booking *)

\* C27: whatever rate, status update and cancel requests have run, every booking
\* that carries a rating score has status completed
C27_RatedIsCompleted ==
    \A i \in BookingIds : bookings[i].score # NoScore => bookings[i].status = "completed"

\* the role a request of this operation runs under once its role check passed
RoleOfOperation(op) ==
    CASE op = "cancel" -> "client"
      [] op = "updateStatus" -> "consultant"
      [] op = "adminUpdateStatus" -> "admin"
      [] OTHER -> ""

\* C28: a completed booking has completedAt set and a cancelled booking has
\* cancelledAt set, and the request that writes a booking as cancelled stamps
\* cancelledBy with the role of its caller
C28_StampsFollowStatus ==
    /\ [](\A i \in BookingIds :
              /\ bookings[i].status = "completed" => bookings[i].completedAt # NoDate
              /\ bookings[i].status = "cancelled" =>
                     /\ bookings[i].cancelledAt # NoDate
                     /\ bookings[i].cancelledBy \in {"client", "consultant", "admin"})
    /\ [][\A i \in BookingIds :
              (bookings'[i] # bookings[i] /\ bookings'[i].status = "cancelled")
                  => bookings'[i].cancelledBy = RoleOfOperation(response'.op)]_vars

\* cancelled by the client with a reason, completed later on, and cancelled again by
\* the admin
C28_Witness ==
    /\ response.op = "adminUpdateStatus" /\ response.code = 200
    /\ \E i \in BookingIds :
           /\ bookings[i].status = "cancelled"
           /\ bookings[i].cancelledBy = "admin"
           /\ bookings[i].cancellationReason # NoText
           /\ bookings[i].completedAt # NoDate

-----------------------------------------------------------------------------
(* SpecConflict: Booking.checkConflict applied to the stored bookings *)

T930 == TimeString(9, 30, FALSE)     \* "9:30"
T945 == TimeString(9, 45, FALSE)     \* "9:45"
T1030 == TimeString(10, 30, TRUE)    \* "10:30"

\* start and end times a caller passes, all accepted by the HH:MM pattern
ConflictTimes == {T0900, T930, T945, T1030}

\* stored bookings are written with two-digit hours, so that their end time is
\* the start time plus the duration
ConflictBookingBodies ==
    {BookingBody(c, 1, 2, st, T1030, 60, 50) : c \in ConsultantIds, st \in {T0900, T1000}}

\* a call of the static method: the arguments and the _id it returns (0 for null)
CheckConflictCall(consultantId, date, startTime, endTime, excludeBookingId) ==
    /\ response' = [Response("checkConflict", 0, "") EXCEPT
                       !.data = <<consultantId, date, startTime, endTime, excludeBookingId,
                                  CheckConflict(consultantId, date, startTime, endTime,
                                                excludeBookingId)>>]
    /\ UNCHANGED <<bookings, consultants, categories, requests, users>>

NextConflict ==
    \/ \E body \in ConflictBookingBodies, now \in Instants :
           Len(bookings) < MaxBookings /\ CreateBooking(1, now, body)
    \/ \E id \in 1..MaxBookings, status \in {"cancelled", "no-show"}, now \in Instants :
           AdminUpdateBookingStatus(5, id, status, now)
    \/ \E c \in ConsultantIds, d \in Dates, st \in ConflictTimes, et \in ConflictTimes,
          ex \in 0..MaxBookings :
           /\ MinutesOf(st) < MinutesOf(et)
           /\ CheckConflictCall(c, d, st, et, ex)

SpecConflict == Init /\ [][NextConflict]_vars

\* the stored bookings the claim calls conflicting with the given slot
ConflictingBookings(consultantId, date, startTime, endTime, excludeBookingId) ==
    {i \in BookingIds :
        /\ i # excludeBookingId
        /\ bookings[i].consultant = consultantId
        /\ bookings[i].date = date
        /\ bookings[i].status \notin {"cancelled", "no-show"}
        /\ MinutesOf(bookings[i].startTime) < MinutesOf(endTime)
        /\ MinutesOf(bookings[i].endTime) > MinutesOf(startTime)}

\* C29: checkConflict returns a booking exactly when a stored booking other than the
\* excluded one has the consultant and the date, is neither cancelled nor no-show,
\* starts before the given end time and ends after the given start time, and the
\* booking it returns is one of those
C29_CheckConflictIsOverlap ==
    response.op = "checkConflict"
        => LET expected == ConflictingBookings(response.data[1], response.data[2],
                                               response.data[3], response.data[4],
                                               response.data[5])
           IN  IF expected = {}
               THEN response.data[6] = 0
               ELSE response.data[6] \in expected

-----------------------------------------------------------------------------
(* SpecLogin: seeded accounts, activation by the admin, and logins *)

LoginEmails ==
    {Email(name, upper) : name \in Emails \cup {"nobody@zentro.com", ""}, upper \in BOOLEAN}

LoginPasswords == {"admin123", "client123", "letmein", ""}

NextLogin ==
    \/ SeedUser(AdminEmail, "admin123")
    \/ \E e \in {ClientEmail, SecondClientEmail} : SeedUser(e, "client123")
    \/ \E u \in {1, 5}, e \in Emails, isActive \in BOOLEAN : SetUserStatus(u, e, isActive)
    \/ \E email \in LoginEmails, password \in LoginPasswords, now \in Instants :
           Login(email, password, now)

SpecLogin == Init /\ [][NextLogin]_vars

\* C30: a login is answered with a token only when the account of the address
\* exists, is active and the password matches its stored hash; a login to a stored
\* account with a password that does not match is answered 401 without a token
C30_TokenNeedsPassword ==
    [][\A email \in LoginEmails, password \in LoginPasswords \ {""}, now \in Instants :
          Login(email, password, now)
              => LET name == NormalizeEmail(email).name
                     stored == name \in Emails /\ users[name].exists
                 IN  /\ response'.data # NoData
                            => /\ stored
                               /\ users[name].isActive
                               /\ Compare(password, users[name].password)
                     /\ (stored /\ ~Compare(password, users[name].password))
                            => response'.code = 401 /\ response'.data = NoData]_vars

====
